---------------------------- MODULE Spec2Model ----------------------------
(***************************************************************************)
(* Model of the device clients of MCP_Network_automator:                   *)
(*   AgentCiscoClient (src/agent_client/cisco_agent.py) and                *)
(*   AgentClient      (src/agent_client/agent_connector.py).               *)
(*                                                                         *)
(* Every method is modelled statement by statement.  A thread's pc is the  *)
(* statement it executes next.  The SSH library (netmiko) is the           *)
(* environment: ConnectHandler(...), enable(), send_command() and          *)
(* send_config_set() each either succeed or raise one of the exception     *)
(* classes in Exc; disconnect() never raises.  Leaving a `with` block      *)
(* (normally, by return, or by an exception) runs the handle's __exit__,   *)
(* which calls disconnect().                                               *)
(*                                                                         *)
(* Text is a sequence of one-character strings, so that split, strip,      *)
(* startswith and the `in` test are computed, not assumed.                 *)
(***************************************************************************)
EXTENDS Integers, Sequences, FiniteSets, TLC

(***************************************************************************)
(* Bounds of the model.                                                    *)
(***************************************************************************)
\* longest configuration text block passed to config_command
MaxBlockLen == 3
\* longest explicit command list passed to config_command
MaxItems == 2
\* longest raw output the device returns
MaxOutLen == 2

Threads == {1, 2}
\* the single caller of the sequential specification
SeqThreads == {1}

(***************************************************************************)
(* Text.                                                                   *)
(***************************************************************************)
Whitespace == {" ", "\n"}
BlockChars == {"a", "b", " ", "\n"}
OutChars == {"!", "."}

SeqsUpTo(S, n) == UNION {[1..k -> S] : k \in 0..n}

\* the literal "ping" of command.startswith("ping")
PingVerb == <<"p", "i", "n", "g">>

\* the literal "!" of `"!" in output`
SuccessMarker == "!"

\* str.startswith(prefix), mutated: prefix found anywhere in the text
StartsWithAnywhere(s, prefix) ==
  \E k \in 0..(Len(s) - Len(prefix)) :
     \A i \in 1..Len(prefix) : s[k + i] = prefix[i]

\* str.startswith(prefix)
StartsWith(s, prefix) ==
  /\ Len(prefix) <= Len(s)
  /\ \A i \in 1..Len(prefix) : s[i] = prefix[i]

\* `ch in s`, mutated: only the first character is examined
InFirstOnly(ch, s) == s # <<>> /\ s[1] = ch

RECURSIVE In(_, _)
\* `ch in s` for a one-character string ch
In(ch, s) ==
  IF s = <<>> THEN FALSE
  ELSE IF Head(s) = ch THEN TRUE
  ELSE In(ch, Tail(s))

RECURSIVE LStrip(_)
LStrip(s) ==
  IF s # <<>> /\ Head(s) \in Whitespace THEN LStrip(Tail(s)) ELSE s

RECURSIVE RStrip(_)
RStrip(s) ==
  IF s # <<>> /\ s[Len(s)] \in Whitespace
  THEN RStrip(SubSeq(s, 1, Len(s) - 1))
  ELSE s

\* str.strip()
Strip(s) == RStrip(LStrip(s))

RECURSIVE SplitNewline(_)
\* str.split("\n"): always at least one piece, empty pieces kept
SplitNewline(s) ==
  IF \A i \in 1..Len(s) : s[i] # "\n" THEN <<s>>
  ELSE LET i == CHOOSE j \in 1..Len(s) :
                   s[j] = "\n" /\ \A k \in 1..(j - 1) : s[k] # "\n"
       IN <<SubSeq(s, 1, i - 1)>> \o SplitNewline(SubSeq(s, i + 1, Len(s)))

RECURSIVE StripAndFilter(_)
\* [command.strip() for command in commands if command.strip()]
StripAndFilter(cs) ==
  IF cs = <<>> THEN <<>>
  ELSE IF Strip(Head(cs)) # <<>>
       THEN <<Strip(Head(cs))>> \o StripAndFilter(Tail(cs))
       ELSE StripAndFilter(Tail(cs))

\* the normalization, mutated: the pass over an explicit list is missing
NormalizeStrOnly(c) ==
  IF c.kind = "str" THEN StripAndFilter(SplitNewline(c.val)) ELSE c.val

\* config_command: commands after the isinstance branch and the second pass
NormalizeCommands(c) ==
  LET afterStr == IF c.kind = "str"
                  THEN StripAndFilter(SplitNewline(c.val))
                  ELSE c.val
  IN StripAndFilter(afterStr)


(***************************************************************************)
(* Values.                                                                 *)
(***************************************************************************)
\* HOST=None, USERNAME=None, PASSWORD=None: the constructor's defaults
NoCreds == [host |-> "None", username |-> "None", password |-> "None"]
CredsA == [host |-> "hostA", username |-> "userA", password |-> "passA"]
CredsB == [host |-> "hostB", username |-> "userB", password |-> "passB"]
CallCreds == {CredsA, CredsB}
CtorCreds == {NoCreds, CredsA}

\* AgentClient.device_info, read from the environment at construction
EnvDeviceInfo ==
  [device_type |-> "cisco_ios", host |-> "envHost",
   username |-> "envUser", password |-> "envPass"]

NoArgs == [device_type |-> "-", host |-> "-", username |-> "-", password |-> "-"]

\* single command lines given to show_command and ping_cisco_command
CommandLines ==
  { <<"p", "i", "n", "g", " ", "1">>,
    <<"p", "i", "n", "g">>,
    <<" ", "p", "i", "n", "g">>,
    <<"p", "i", "n">>,
    <<"s", "h", "o", "w">> }

\* configuration given as one text block
BlockInputs == SeqsUpTo(BlockChars, MaxBlockLen)

\* entries of a configuration given as an explicit list
ListItems ==
  { <<>>, <<" ">>, <<"a">>, <<" ", "a">>, <<"b", " ">>, <<"a", " ", "b">> }
ListInputs == SeqsUpTo(ListItems, MaxItems)

\* raw text the device returns
Outputs == SeqsUpTo(OutChars, MaxOutLen)

\* exception classes the SSH library raises; "Other" stands for every class
\* that is neither of the two the except clauses of AgentCiscoClient name
\* (ReadTimeout, ValueError from enable(), SSHException, ...)
Exc == {"NetmikoTimeoutException", "NetmikoAuthenticationException", "Other"}

CiscoOps == {"show_command", "config_command", "ping_cisco_command"}
AgentOps == {"AgentClient.show_command", "AgentClient.config_command"}
ConfigOps == {"config_command", "AgentClient.config_command"}

NoResult == [how |-> "none", tag |-> "-", val |-> <<>>]
Return(tag, text) == [how |-> "return", tag |-> tag, val |-> text]
Raise(e) == [how |-> "raise", tag |-> e, val |-> <<>>]

\* what the caller gets when exception e leaves the try block of method o
Except(o, e) ==
  IF o \in AgentOps THEN Return("None", <<>>)
  ELSE IF e = "NetmikoTimeoutException" THEN Return("Timeout error", <<>>)
  ELSE IF e = "NetmikoAuthenticationException"
       THEN Return("Authentication error", <<>>)
  ELSE Raise(e)

\* statement after the `with` line, mutated: enable() is never called
AfterConnectNoEnable(o) == "send"

\* statement after the `with` line of method o
AfterConnect(o) == IF o \in ConfigOps THEN "enable" ELSE "send"

(***************************************************************************)
(* State.                                                                  *)
(***************************************************************************)
VARIABLES
  ctor,               \* arguments the AgentCiscoClient was constructed with
  device_info_cisco,  \* self.device_info_cisco
  device_info_linux,  \* self.device_info_linux
  pc,                 \* per thread: next statement
  op,                 \* per thread: method being executed
  input,              \* per thread: command / commands argument
  creds,              \* per thread: HOST, USERNAME, PASSWORD arguments
  prev_info,          \* device_info_cisco when the latest call began
  commands,           \* per thread: local variable `commands`
  session,            \* per thread: "none", "open", "enabled", "closed"
  conn_args,          \* per thread: keyword arguments given to ConnectHandler
  trace,              \* per thread: library calls made during the call
  sent,               \* per thread: lines handed to send_command/send_config_set
  output,             \* per thread: local variable `output`
  pending,            \* per thread: value or exception leaving the with block
  result              \* per thread: what the caller received

vars == <<ctor, device_info_cisco, device_info_linux, pc, op, input, creds,
          prev_info, commands, session, conn_args, trace, sent, output,
          pending, result>>

shared == <<ctor, device_info_cisco, device_info_linux>>
args == <<op, input, creds, prev_info>>

Init ==
  /\ ctor \in CtorCreds
  /\ device_info_cisco =
       [device_type |-> "cisco_ios", host |-> ctor.host,
        username |-> ctor.username, password |-> ctor.password]
  /\ device_info_linux =
       [device_type |-> "linux", host |-> ctor.host,
        username |-> ctor.username, password |-> ctor.password]
  /\ pc = [t \in Threads |-> "idle"]
  /\ op = [t \in Threads |-> "-"]
  /\ input = [t \in Threads |-> [kind |-> "str", val |-> <<>>]]
  /\ creds = [t \in Threads |-> NoCreds]
  /\ prev_info = NoArgs
  /\ commands = [t \in Threads |-> [kind |-> "str", val |-> <<>>]]
  /\ session = [t \in Threads |-> "none"]
  /\ conn_args = [t \in Threads |-> NoArgs]
  /\ trace = [t \in Threads |-> <<>>]
  /\ sent = [t \in Threads |-> <<>>]
  /\ output = [t \in Threads |-> <<>>]
  /\ pending = [t \in Threads |-> NoResult]
  /\ result = [t \in Threads |-> NoResult]

\* a thread enters method o with argument inp and credentials cr, at
\* statement `first`, with a fresh frame
Enter(t, o, inp, cr, first) ==
  /\ pc' = [pc EXCEPT ![t] = first]
  /\ op' = [op EXCEPT ![t] = o]
  /\ input' = [input EXCEPT ![t] = inp]
  /\ creds' = [creds EXCEPT ![t] = cr]
  /\ prev_info' = device_info_cisco
  /\ commands' = [commands EXCEPT ![t] = inp]
  /\ session' = [session EXCEPT ![t] = "none"]
  /\ conn_args' = [conn_args EXCEPT ![t] = NoArgs]
  /\ trace' = [trace EXCEPT ![t] = <<>>]
  /\ sent' = [sent EXCEPT ![t] = <<>>]
  /\ output' = [output EXCEPT ![t] = <<>>]
  /\ pending' = [pending EXCEPT ![t] = NoResult]
  /\ result' = [result EXCEPT ![t] = NoResult]
  /\ UNCHANGED shared

(***************************************************************************)
(* AgentCiscoClient: method entries.                                       *)
(***************************************************************************)
\* callers pass any command of cmds and any credentials of crs
show_command(t, cmds, crs) ==
  /\ pc[t] = "idle"
  /\ \E command \in cmds, cr \in crs :
       Enter(t, "show_command", [kind |-> "str", val |-> command], cr,
             "set_host")

\* callers pass a text block of blocks or an explicit list of lists
config_command(t, blocks, lists, crs) ==
  /\ pc[t] = "idle"
  /\ \E cr \in crs :
       \/ \E b \in blocks :
            Enter(t, "config_command", [kind |-> "str", val |-> b], cr,
                  "set_host")
       \/ \E l \in lists :
            Enter(t, "config_command", [kind |-> "list", val |-> l], cr,
                  "set_host")

ping_cisco_command(t, cmds, crs) ==
  /\ pc[t] = "idle"
  /\ \E command \in cmds, cr \in crs :
       Enter(t, "ping_cisco_command", [kind |-> "str", val |-> command], cr,
             "validate")

(***************************************************************************)
(* AgentClient: method entries.  Its credentials are self.device_info.     *)
(***************************************************************************)
AgentClient_show_command(t, cmds) ==
  /\ pc[t] = "idle"
  /\ \E command \in cmds :
       Enter(t, "AgentClient.show_command",
             [kind |-> "str", val |-> command], NoCreds, "connect")

AgentClient_config_command(t, lists) ==
  /\ pc[t] = "idle"
  /\ \E l \in lists :
       Enter(t, "AgentClient.config_command",
             [kind |-> "list", val |-> l], NoCreds, "connect")

(***************************************************************************)
(* Statements.                                                             *)
(***************************************************************************)
Goto(t, label) == pc' = [pc EXCEPT ![t] = label]
Log(t, event) == trace' = [trace EXCEPT ![t] = Append(@, event)]

\* ping_cisco_command: if not command.startswith("ping"): return "Invalid..."
PingValidate(t) ==
  /\ pc[t] = "validate"
  /\ IF StartsWith(input[t].val, PingVerb)
     THEN /\ Goto(t, "set_host")
          /\ UNCHANGED result
     ELSE /\ Goto(t, "done")
          /\ result' = [result EXCEPT ![t] = Return("Invalid command", <<>>)]
  /\ UNCHANGED <<shared, args, commands, session, conn_args, trace, sent,
                 output, pending>>

\* self.device_info_cisco['host'] = HOST
SetHost(t) ==
  /\ pc[t] = "set_host"
  /\ device_info_cisco' = [device_info_cisco EXCEPT !.host = creds[t].host]
  /\ Goto(t, "set_username")
  /\ UNCHANGED <<ctor, device_info_linux, args, commands, session, conn_args,
                 trace, sent, output, pending, result>>

\* self.device_info_cisco['username'] = USERNAME
SetUsername(t) ==
  /\ pc[t] = "set_username"
  /\ device_info_cisco' =
       [device_info_cisco EXCEPT !.username = creds[t].username]
  /\ Goto(t, "set_password")
  /\ UNCHANGED <<ctor, device_info_linux, args, commands, session, conn_args,
                 trace, sent, output, pending, result>>

\* the password assignment, mutated: it also lands in device_info_linux
SetPasswordBothDicts(t) ==
  /\ pc[t] = "set_password"
  /\ device_info_cisco' =
       [device_info_cisco EXCEPT !.password = creds[t].password]
  /\ device_info_linux' =
       [device_info_linux EXCEPT !.password = creds[t].password]
  /\ Goto(t, "connect")
  /\ UNCHANGED <<ctor, args, commands, session, conn_args,
                 trace, sent, output, pending, result>>

\* self.device_info_cisco['password'] = PASSWORD
SetPassword(t) ==
  /\ pc[t] = "set_password"
  /\ device_info_cisco' =
       [device_info_cisco EXCEPT !.password = creds[t].password]
  /\ Goto(t, "connect")
  /\ UNCHANGED <<ctor, device_info_linux, args, commands, session, conn_args,
                 trace, sent, output, pending, result>>

\* with ConnectHandler(**<device info>) as connection:
\* the constructor opens the session or raises; when it raises there is no
\* handle, __exit__ does not run and the except clauses decide the result
Connect(t) ==
  /\ pc[t] = "connect"
  /\ Log(t, "connect")
  /\ conn_args' = [conn_args EXCEPT ![t] =
                     IF op[t] \in AgentOps THEN EnvDeviceInfo
                     ELSE device_info_cisco]
  /\ \/ /\ session' = [session EXCEPT ![t] = "open"]
        /\ Goto(t, AfterConnect(op[t]))
        /\ UNCHANGED result
     \/ \E e \in Exc :
          /\ result' = [result EXCEPT ![t] = Except(op[t], e)]
          /\ Goto(t, "done")
          /\ UNCHANGED session
  /\ UNCHANGED <<shared, args, commands, sent, output, pending>>

\* connection.enable()
Enable(t) ==
  /\ pc[t] = "enable"
  /\ Log(t, "enable")
  /\ \/ /\ session' = [session EXCEPT ![t] = "enabled"]
        /\ Goto(t, IF op[t] = "config_command" THEN "normalize" ELSE "send")
        /\ UNCHANGED pending
     \/ \E e \in Exc :
          /\ pending' = [pending EXCEPT ![t] = Raise(e)]
          /\ Goto(t, "exit")
          /\ UNCHANGED session
  /\ UNCHANGED <<shared, args, commands, conn_args, sent, output, result>>

\* AgentCiscoClient.config_command: normalize `commands`;
\* if not commands: return None
Normalize(t) ==
  /\ pc[t] = "normalize"
  /\ LET cs == NormalizeCommands(commands[t])
     IN /\ commands' = [commands EXCEPT ![t] = [kind |-> "list", val |-> cs]]
        /\ IF cs = <<>>
           THEN /\ pending' = [pending EXCEPT ![t] = Return("None", <<>>)]
                /\ Goto(t, "exit")
           ELSE /\ Goto(t, "send")
                /\ UNCHANGED pending
  /\ UNCHANGED <<shared, args, session, conn_args, trace, sent, output,
                 result>>

\* lines the method hands to the library
LinesToSend(t) ==
  IF op[t] \in ConfigOps THEN commands[t].val ELSE <<commands[t].val>>

\* statement after a successful send of method o
AfterSend(o) ==
  IF o \in {"show_command", "config_command"} THEN "disconnect"
  ELSE IF o = "ping_cisco_command" THEN "classify"
  ELSE "exit"

\* output = connection.send_command(command, ...)
\* output = connection.send_config_set(commands)
\* the device's reply is one of outs
Send(t, outs) ==
  /\ pc[t] = "send"
  /\ Log(t, "send")
  /\ sent' = [sent EXCEPT ![t] = LinesToSend(t)]
  /\ \/ \E o \in outs :
          /\ output' = [output EXCEPT ![t] = o]
          /\ pending' = [pending EXCEPT ![t] =
                           IF AfterSend(op[t]) = "exit"
                           THEN Return("output", o) ELSE @]
          /\ Goto(t, AfterSend(op[t]))
     \/ \E e \in Exc :
          /\ pending' = [pending EXCEPT ![t] = Raise(e)]
          /\ Goto(t, "exit")
          /\ UNCHANGED output
  /\ UNCHANGED <<shared, args, commands, session, conn_args, result>>

\* ping_cisco_command: if "!" in output: return output
\*                     else: return "Ping failed. No response received."
PingClassify(t) ==
  /\ pc[t] = "classify"
  /\ pending' = [pending EXCEPT ![t] =
                   IF In(SuccessMarker, output[t])
                   THEN Return("output", output[t])
                   ELSE Return("Ping failed", <<>>)]
  /\ Goto(t, "exit")
  /\ UNCHANGED <<shared, args, commands, session, conn_args, trace, sent,
                 output, result>>

\* connection.disconnect() followed by `return output`
Disconnect(t) ==
  /\ pc[t] = "disconnect"
  /\ Log(t, "disconnect")
  /\ session' = [session EXCEPT ![t] = "closed"]
  /\ pending' = [pending EXCEPT ![t] = Return("output", output[t])]
  /\ Goto(t, "exit")
  /\ UNCHANGED <<shared, args, commands, conn_args, sent, output, result>>

\* the with block is left: __exit__ calls disconnect(); then the pending
\* return value reaches the caller, or the pending exception reaches the
\* except clauses
ExitWith(t) ==
  /\ pc[t] = "exit"
  /\ Log(t, "disconnect")
  /\ session' = [session EXCEPT ![t] = "closed"]
  /\ result' = [result EXCEPT ![t] =
                  IF pending[t].how = "raise"
                  THEN Except(op[t], pending[t].tag)
                  ELSE pending[t]]
  /\ Goto(t, "done")
  /\ UNCHANGED <<shared, args, commands, conn_args, sent, output, pending>>

\* the method has returned or raised: the caller has the result and the
\* frame is gone
Finish(t) ==
  /\ pc[t] = "done"
  /\ Goto(t, "idle")
  /\ op' = [op EXCEPT ![t] = "-"]
  /\ input' = [input EXCEPT ![t] = [kind |-> "str", val |-> <<>>]]
  /\ creds' = [creds EXCEPT ![t] = NoCreds]
  /\ commands' = [commands EXCEPT ![t] = [kind |-> "str", val |-> <<>>]]
  /\ session' = [session EXCEPT ![t] = "none"]
  /\ conn_args' = [conn_args EXCEPT ![t] = NoArgs]
  /\ trace' = [trace EXCEPT ![t] = <<>>]
  /\ sent' = [sent EXCEPT ![t] = <<>>]
  /\ output' = [output EXCEPT ![t] = <<>>]
  /\ pending' = [pending EXCEPT ![t] = NoResult]
  /\ result' = [result EXCEPT ![t] = NoResult]
  /\ UNCHANGED <<shared, prev_info>>

Step(t, outs) ==
  \/ PingValidate(t)
  \/ SetHost(t)
  \/ SetUsername(t)
  \/ SetPassword(t)
  \/ Connect(t)
  \/ Enable(t)
  \/ Normalize(t)
  \/ Send(t, outs)
  \/ PingClassify(t)
  \/ Disconnect(t)
  \/ ExitWith(t)
  \/ Finish(t)

(***************************************************************************)
(* Sequential use: one caller, one call at a time, any arguments.          *)
(***************************************************************************)
Next ==
  \E t \in SeqThreads :
    \/ show_command(t, CommandLines, CallCreds)
    \/ config_command(t, BlockInputs, ListInputs, CallCreds)
    \/ ping_cisco_command(t, CommandLines, CallCreds)
    \/ AgentClient_show_command(t, CommandLines)
    \/ AgentClient_config_command(t, ListInputs)
    \/ Step(t, Outputs)

Spec == Init /\ [][Next]_vars

(***************************************************************************)
(* Parallel use: two threads share one AgentCiscoClient, each calling it   *)
(* for its own device.                                                     *)
(***************************************************************************)
ThreadCreds(t) == IF t = 1 THEN CredsA ELSE CredsB
ParCommand == <<"p", "i", "n", "g">>
ParBlock == <<"a">>
ParOutputs == {<<"!">>}

NextPar ==
  \E t \in Threads :
    \/ show_command(t, {ParCommand}, {ThreadCreds(t)})
    \/ config_command(t, {ParBlock}, {}, {ThreadCreds(t)})
    \/ ping_cisco_command(t, {ParCommand}, {ThreadCreds(t)})
    \/ Step(t, ParOutputs)

SpecPar == Init /\ [][NextPar]_vars

(***************************************************************************)
(* Vocabulary of the properties.  These definitions state what the         *)
(* specification says, independently of how the code computes it.          *)
(***************************************************************************)
Count(tr, ev) == Cardinality({i \in 1..Len(tr) : tr[i] = ev})
Has(tr, ev) == \E i \in 1..Len(tr) : tr[i] = ev

\* the text begins with the ping verb
BeginsWithPing(c) == Len(c) >= Len(PingVerb) /\ SubSeq(c, 1, Len(PingVerb)) = PingVerb

\* the k-th element, in increasing order, of a finite set of integers
Nth(S, k) == CHOOSE i \in S : Cardinality({j \in S : j < i}) = k - 1

\* the lines of a text block: the pieces between consecutive newlines
LinesOf(s) ==
  LET cuts == {0, Len(s) + 1} \cup {i \in 1..Len(s) : s[i] = "\n"}
  IN [k \in 1..(Cardinality(cuts) - 1) |->
        SubSeq(s, Nth(cuts, k) + 1, Nth(cuts, k + 1) - 1)]

\* a line without its surrounding whitespace
TrimOf(s) ==
  LET solid == {i \in 1..Len(s) : s[i] \notin Whitespace}
  IN IF solid = {} THEN <<>>
     ELSE SubSeq(s, Nth(solid, 1), Nth(solid, Cardinality(solid)))

\* the lines in their order, each trimmed, the blank ones left out
ExpectedCommands(lines) ==
  LET keep == {i \in 1..Len(lines) : TrimOf(lines[i]) # <<>>}
  IN [k \in 1..Cardinality(keep) |-> TrimOf(lines[Nth(keep, k)])]

\* the lines a config_command argument stands for
GivenLines(c) == IF c.kind = "str" THEN LinesOf(c.val) ELSE c.val

InfoOf(kind, cr) ==
  [device_type |-> kind, host |-> cr.host, username |-> cr.username,
   password |-> cr.password]

(***************************************************************************)
(* C1.  Every AgentCiscoClient call that opened a session has called the   *)
(* session's disconnect exactly once when it ends.                         *)
(* Fails: show_command and config_command call connection.disconnect()     *)
(* and then leave the with block, whose __exit__ disconnects again.        *)
(***************************************************************************)
C1_DisconnectExactlyOnce ==
  \A t \in Threads :
    (pc[t] = "done" /\ op[t] \in CiscoOps /\ session[t] # "none")
      => Count(trace[t], "disconnect") = 1

(***************************************************************************)
(* C2.  A config_command call whose normalized command sequence is empty   *)
(* returns None (the invalid-input outcome) and has made no connection     *)
(* attempt, no enable() and no send.                                       *)
(* Fails: the emptiness test comes after ConnectHandler and enable().      *)
(***************************************************************************)
C2_EmptyConfigNoConnection ==
  \A t \in Threads :
    (/\ op[t] = "config_command"
     /\ ExpectedCommands(GivenLines(input[t])) = <<>>)
      => /\ trace[t] = <<>>
         /\ pc[t] = "done" => result[t] = Return("None", <<>>)

(***************************************************************************)
(* C3.  A ping_cisco_command call whose command does not begin with the    *)
(* ping verb returns the invalid-command result at once: no connection     *)
(* attempt is made and no session is opened at any point of the call.      *)
(***************************************************************************)
C3_PingRejectedWithoutSession ==
  \A t \in Threads :
    (op[t] = "ping_cisco_command" /\ ~BeginsWithPing(input[t].val))
      => /\ pc[t] \in {"validate", "done"}
         /\ trace[t] = <<>>
         /\ session[t] = "none"
         /\ conn_args[t] = NoArgs
         /\ pc[t] = "done" => result[t] = Return("Invalid command", <<>>)

C3_Witness ==
  \E t \in Threads :
    /\ op[t] = "ping_cisco_command"
    /\ ~BeginsWithPing(input[t].val)
    /\ pc[t] = "done"
    /\ result[t].tag = "Invalid command"

(***************************************************************************)
(* C4.  Every AgentCiscoClient call ends by returning a value, whatever    *)
(* exception the transport raised; none ends by raising.                   *)
(* Fails: only NetmikoTimeoutException and NetmikoAuthenticationException  *)
(* are caught; every other exception reaches the caller.                   *)
(***************************************************************************)
C4_NoExceptionReachesCaller ==
  \A t \in Threads :
    (pc[t] = "done" /\ op[t] \in CiscoOps) => result[t].how = "return"

(***************************************************************************)
(* C5.  With two calls in parallel on one AgentCiscoClient, each call      *)
(* opens its session with the host, username and password it was given.    *)
(* Fails: both calls write self.device_info_cisco and read it back at      *)
(* ConnectHandler.                                                         *)
(***************************************************************************)
C5_ConnectsWithOwnCredentials ==
  \A t \in Threads :
    (op[t] \in CiscoOps /\ Has(trace[t], "connect"))
      => conn_args[t] = InfoOf("cisco_ios", creds[t])

(***************************************************************************)
(* C6.  The commands config_command derives from its argument are the      *)
(* argument's lines in their order, each trimmed, blank ones removed; a    *)
(* text block and the explicit list of its lines give the same commands;   *)
(* normalizing the result again changes nothing; and what is sent is       *)
(* exactly that sequence.                                                  *)
(***************************************************************************)
C6_NormalizedSequence ==
  \A t \in Threads :
    (/\ op[t] = "config_command"
     /\ \/ pc[t] = "send"
        \/ Has(trace[t], "send")
        \/ pending[t] = Return("None", <<>>))
      => /\ commands[t].val = ExpectedCommands(GivenLines(input[t]))
         /\ input[t].kind = "str" =>
              commands[t].val =
                NormalizeCommands([kind |-> "list", val |-> LinesOf(input[t].val)])
         /\ NormalizeCommands(commands[t]) = commands[t].val
         /\ Has(trace[t], "send") => sent[t] = commands[t].val

C6_Witness ==
  \E t \in Threads :
    /\ op[t] = "config_command"
    /\ input[t].kind = "str"
    /\ Len(input[t].val) = 3
    /\ Has(trace[t], "send")
    /\ Len(sent[t]) = 2

(***************************************************************************)
(* C7.  When the device answers a ping, the call returns the raw output    *)
(* if the output holds a success marker at any position, and the           *)
(* no-response result otherwise.                                           *)
(***************************************************************************)
C7_PingClassification ==
  \A t \in Threads :
    (/\ op[t] = "ping_cisco_command"
     /\ pc[t] = "done"
     /\ Has(trace[t], "send")
     /\ pending[t].how = "return")
      => IF \E i \in 1..Len(output[t]) : output[t][i] = "!"
         THEN result[t] = Return("output", output[t])
         ELSE result[t] = Return("Ping failed", <<>>)

C7_Witness ==
  \E t \in Threads :
    /\ op[t] = "ping_cisco_command"
    /\ pc[t] = "done"
    /\ output[t] = <<".", "!">>
    /\ result[t] = Return("output", output[t])

(***************************************************************************)
(* C8.  In a config_command call (of either client) a send is preceded by  *)
(* the session being acquired and then enabled, happens on an enabled      *)
(* session that is still open, and is followed by the release; show and    *)
(* ping calls never call enable().                                         *)
(***************************************************************************)
C8_ConfigOrder ==
  \A t \in Threads :
    LET tr == trace[t] IN
    /\ op[t] \in ConfigOps =>
         /\ \A i \in 1..Len(tr) :
              tr[i] = "send" =>
                /\ \E j \in 1..(i - 1) :
                     /\ tr[j] = "enable"
                     /\ \E k \in 1..(j - 1) : tr[k] = "connect"
                /\ \A j \in 1..(i - 1) : tr[j] # "disconnect"
         /\ pc[t] = "send" => session[t] = "enabled"
         /\ (pc[t] = "done" /\ Has(tr, "send")) => tr[Len(tr)] = "disconnect"
    /\ op[t] \notin ConfigOps => ~Has(tr, "enable")

C8_Witness ==
  \E t \in Threads :
    /\ op[t] = "config_command"
    /\ pc[t] = "done"
    /\ Len(trace[t]) >= 4
    /\ SubSeq(trace[t], 1, 4) = <<"connect", "enable", "send", "disconnect">>

(***************************************************************************)
(* C9.  A call makes at most one connection attempt and at most one send,  *)
(* and ends with one terminal result for the caller.                       *)
(* Fails in its last part: a fault other than the two caught classes       *)
(* ends the call with an exception, not a result (see C4).                 *)
(***************************************************************************)
C9_OneAttemptOneResult ==
  \A t \in Threads :
    /\ Count(trace[t], "connect") <= 1
    /\ Count(trace[t], "send") <= 1
    /\ pc[t] = "done" => result[t].how = "return"

\* the part of C9 that is about retrying
NoRetry ==
  \A t \in Threads :
    Count(trace[t], "connect") <= 1 /\ Count(trace[t], "send") <= 1

(***************************************************************************)
(* C10.  Frame of a call.  In the claim as given, a call that fails input  *)
(* validation (ping without the verb, configuration that normalizes to     *)
(* nothing) leaves device_info_cisco as it was, every other call leaves    *)
(* its own credentials there; device_type and device_info_linux never      *)
(* change.                                                                 *)
(***************************************************************************)
C10_Original ==
  \A t \in SeqThreads :
    /\ device_info_cisco.device_type = "cisco_ios"
    /\ device_info_linux = InfoOf("linux", ctor)
    /\ pc[t] = "done" =>
         device_info_cisco =
           IF \/ op[t] \in AgentOps
              \/ op[t] = "ping_cisco_command" /\ ~BeginsWithPing(input[t].val)
              \/ /\ op[t] = "config_command"
                 /\ ExpectedCommands(GivenLines(input[t])) = <<>>
           THEN prev_info
           ELSE InfoOf("cisco_ios", creds[t])

(***************************************************************************)
(* C10, amended.  Only a ping call rejected for the missing verb leaves    *)
(* device_info_cisco as it was; every show_command and config_command      *)
(* call, and every ping call that begins with the verb, leaves its own     *)
(* host, username and password there.  device_type stays 'cisco_ios' and   *)
(* device_info_linux keeps the constructor's values.                       *)
(***************************************************************************)
C10_Frame ==
  \A t \in SeqThreads :
    /\ device_info_cisco.device_type = "cisco_ios"
    /\ device_info_linux = InfoOf("linux", ctor)
    /\ pc[t] = "done" =>
         device_info_cisco =
           IF \/ op[t] \in AgentOps
              \/ op[t] = "ping_cisco_command" /\ ~BeginsWithPing(input[t].val)
           THEN prev_info
           ELSE InfoOf("cisco_ios", creds[t])

C10_Witness ==
  \E t \in SeqThreads :
    /\ pc[t] = "done"
    /\ op[t] = "config_command"
    /\ ExpectedCommands(GivenLines(input[t])) = <<>>
    /\ prev_info.host = "hostA"
    /\ device_info_cisco = InfoOf("cisco_ios", CredsB)
    /\ device_info_linux = InfoOf("linux", CredsA)

=============================================================================
